---- MODULE Spec2Model ----
(***************************************************************************)
(* Model of the tuition-admin student API: the Mongoose Student schema     *)
(* (src/prac17/models/Student.js), the Express router of /api/students     *)
(* (src/unnamed/part_000) and the server bootstrap with its sample-data    *)
(* seeding (src/unnamed/part_001).                                         *)
(*                                                                         *)
(* Representation.                                                         *)
(*  - A date is a day number (day 1 = 2023-01-01); Unset = 0 stands for an *)
(*    absent date (undefined, falsy in JavaScript).                        *)
(*  - A text is a sequence of symbols; a symbol is a character or a word.  *)
(*    Substring search is search for a contiguous run of symbols.          *)
(*  - A request body is a record whose DOMAIN is the set of fields the     *)
(*    client sent.  Bodies are plain field/value objects.                  *)
(*  - Fields no claim reads (address, batchTime, guardianName,             *)
(*    guardianPhone, notes, updatedAt) are left out of the documents;      *)
(*    requests are assumed to carry valid values for them.                 *)
(*  - Each await of a handler that reaches the store is one step; the      *)
(*    synchronous code between two awaits belongs to the step.             *)
(***************************************************************************)
EXTENDS Integers, Sequences, FiniteSets, TLC

VARIABLES store, nextId, now, slot, nreq, seeded

vars == <<store, nextId, now, slot, nreq, seeded>>

(***************************** bounds **************************************)
\* identifiers the store ever assigns
MaxIds == 2
\* requests the clients send in one behaviour
MaxRequests == 3
\* days the clock advances
MaxTicks == 1
\* largest page number and page size a listing is asked for
MaxPage == 3
MaxLimit == 2

\* the concurrent clients (requests in flight at the same time)
Procs == {"c1", "c2"}

(***************************** dates ***************************************)
Unset == 0

IsLeap(y) == (y % 4 = 0 /\ y % 100 # 0) \/ y % 400 = 0

DaysInMonth(y, m) ==
    IF m = 2 THEN (IF IsLeap(y) THEN 29 ELSE 28)
    ELSE IF m \in {4, 6, 9, 11} THEN 30 ELSE 31

RECURSIVE DaysBeforeYear(_)
DaysBeforeYear(y) ==
    IF y <= 2023 THEN 0
    ELSE DaysBeforeYear(y - 1) + (IF IsLeap(y - 1) THEN 366 ELSE 365)

RECURSIVE DaysBeforeMonth(_, _)
DaysBeforeMonth(y, m) ==
    IF m <= 1 THEN 0 ELSE DaysBeforeMonth(y, m - 1) + DaysInMonth(y, m - 1)

\* new Date(y, m, d): a day past the end of the month rolls over into the
\* following month(s), as the Date constructor and setMonth do.
DateOf(y, m, d) == DaysBeforeYear(y) + DaysBeforeMonth(y, m) + d

RECURSIVE YearFrom(_, _)
YearFrom(n, y) ==
    IF n <= DaysBeforeYear(y + 1) THEN y ELSE YearFrom(n, y + 1)

YearOf(n) == YearFrom(n, 2023)

RECURSIVE MonthFrom(_, _, _)
MonthFrom(n, y, m) ==
    IF m = 12 \/ n <= DaysBeforeYear(y) + DaysBeforeMonth(y, m + 1)
    THEN m ELSE MonthFrom(n, y, m + 1)

MonthOf(n) == MonthFrom(n, YearOf(n), 1)

DayOf(n) == n - DaysBeforeYear(YearOf(n)) - DaysBeforeMonth(YearOf(n), MonthOf(n))

\* d.setMonth(d.getMonth() + 1)
SetMonthPlusOne(n) ==
    IF MonthOf(n) = 12 THEN DateOf(YearOf(n) + 1, 1, DayOf(n))
    ELSE DateOf(YearOf(n), MonthOf(n) + 1, DayOf(n))

\* the clock when the server starts
NowStart == DateOf(2024, 1, 30)

(***************************** texts ***************************************)
Lower(c) ==
    CASE c = "A" -> "a"
      [] c = "B" -> "b"
      [] c = "N" -> "n"
      [] c = "X" -> "x"
      [] c = "Ann" -> "ann"
      [] c = "Bo" -> "bo"
      [] c = "Physics" -> "physics"
      [] c = "Mathematics" -> "mathematics"
      [] c = "Class" -> "class"
      [] OTHER -> c

LowerText(t) == [i \in 1..Len(t) |-> Lower(t[i])]

Digits == {"0", "1", "2", "3", "4", "5", "6", "7", "8", "9"}

\* /^[\+]?[1-9][\d]{0,15}$/
PhoneMatches(t) ==
    LET r == IF Len(t) > 0 /\ t[1] = "+" THEN Tail(t) ELSE t
    IN  /\ Len(r) >= 1
        /\ Len(r) <= 16
        /\ r[1] \in Digits \ {"0"}
        /\ \A i \in 2..Len(r) : r[i] \in Digits

\* an address has one "@" with something on both sides
EmailMatches(t) ==
    /\ Cardinality({i \in 1..Len(t) : t[i] = "@"}) = 1
    /\ Len(t) >= 3
    /\ t[1] # "@"
    /\ t[Len(t)] # "@"

\* normalizeEmail(): the address in lower case
NormalizeEmail(t) == LowerText(t)

(***************************** schema **************************************)
\* the course enum: subject, "-", "Class", grade
Catalog ==
    {<<s, "-", "Class", g>> :
        s \in {"Mathematics", "Physics", "Chemistry", "English"},
        g \in {"9", "10", "11", "12"}}
    \cup
    {<<s, "-", "Class", g>> :
        s \in {"Biology", "Computer Science"}, g \in {"11", "12"}}

FeeStatuses == {"paid", "pending", "overdue"}

Has(b, f) == f \in DOMAIN b

Get(b, f, dflt) == IF f \in DOMAIN b THEN b[f] ELSE dflt

\* the fields of a stored document that a request body can set
BodyFields ==
    {"name", "email", "phone", "course", "feeAmount", "feeStatus",
     "joinDate", "isActive", "lastFeePayment", "nextFeePayment"}

\* the schema's setters: email is lower-cased (trim is the identity on the
\* texts of the model, which hold no white space at their ends)
CastField(f, v) == IF f = "email" THEN LowerText(v) ELSE v

\* new Student(body) at time t: casts, and the defaults of the schema
NewStudent(b, id, t) ==
    [id             |-> id,
     name           |-> Get(b, "name", <<>>),
     email          |-> CastField("email", Get(b, "email", <<>>)),
     phone          |-> Get(b, "phone", <<>>),
     course         |-> Get(b, "course", <<>>),
     feeAmount      |-> Get(b, "feeAmount", -1),
     feeStatus      |-> Get(b, "feeStatus", "pending"),
     joinDate       |-> Get(b, "joinDate", t),
     isActive       |-> Get(b, "isActive", TRUE),
     lastFeePayment |-> Get(b, "lastFeePayment", Unset),
     nextFeePayment |-> Get(b, "nextFeePayment", Unset),
     createdAt      |-> t]

\* the validators of one schema path
PathValid(f, v) ==
    CASE f = "name"      -> Len(v) >= 2 /\ Len(v) <= 100
      [] f = "email"     -> EmailMatches(v)
      [] f = "phone"     -> PhoneMatches(v)
      [] f = "course"    -> v \in Catalog
      [] f = "feeAmount" -> v >= 0 /\ v <= 50000
      [] f = "feeStatus" -> v \in FeeStatuses
      [] OTHER           -> TRUE

\* document validation, as save() and insertMany() run it
SchemaValid(d) == \A f \in BodyFields : PathValid(f, d[f])

\* an update sent without runValidators
NoUpdateValidators(b) == TRUE

\* update validators (runValidators: true): the paths the update sets
UpdateValid(b) == \A f \in DOMAIN b : PathValid(f, CastField(f, b[f]))

\* pre("save"): isNew, and whether lastFeePayment is modified, are the
\* document's change tracking; t is the time of the save
PreSave(d, isNew, lastModified, t) ==
    LET d1 == IF isNew \/ lastModified
              THEN [d EXCEPT !.nextFeePayment =
                       SetMonthPlusOne(IF d.lastFeePayment # Unset
                                       THEN d.lastFeePayment ELSE d.joinDate)]
              ELSE d
    IN  IF d1.feeStatus = "paid" /\ d1.lastFeePayment = Unset
        THEN [d1 EXCEPT !.lastFeePayment = t]
        ELSE d1

\* a collection whose email index is not unique
NoUniqueIndex(S, d) == FALSE

\* a unique index that counts the written document itself
DuplicateKeyAnyDoc(S, d) == \E e \in S : e.email = d.email

\* the unique index on email: a write that would leave two documents with
\* the same email fails with E11000
DuplicateKey(S, d) == \E e \in S : e.id # d.id /\ e.email = d.email

(***************************** queries *************************************)
FindById(S, id) == {d \in S : d.id = id}

FindOneByEmail(S, email) == {d \in S : d.email = CastField("email", email)}

\* the one element of a set of at most one document, as <<>> or <<d>>
OneOf(D) == IF D = {} THEN <<>> ELSE <<CHOOSE d \in D : TRUE>>

\* {$regex: term, $options: "i"}: the term occurs somewhere in the text,
\* letter case ignored; "." in the term stands for any symbol
RegexMatch(text, term) ==
    \E i \in 0..(Len(text) - Len(term)) :
        \A j \in 1..Len(term) :
            term[j] = "." \/ Lower(text[i + j]) = Lower(term[j])

\* a course helper that forgets the active flag
findByCourseAnyState(S, course) == {d \in S : d.course = course}

\* studentSchema.statics.findByCourse
findByCourse(S, course) == {d \in S : d.course = course /\ d.isActive}

\* studentSchema.statics.findByFeeStatus
findByFeeStatus(S, status) == {d \in S : d.feeStatus = status /\ d.isActive}

\* studentSchema.statics.searchStudents
searchStudents(S, term) ==
    {d \in S : /\ d.isActive
               /\ \/ RegexMatch(d.name, term)
                  \/ RegexMatch(d.email, term)
                  \/ RegexMatch(d.course, term)
                  \/ RegexMatch(d.phone, term)}

\* an overdue helper that compares with $lte
getOverdueStudentsLte(S, t) ==
    {d \in S : /\ d.isActive
               /\ \/ d.feeStatus = "overdue"
                  \/ /\ d.feeStatus = "pending"
                     /\ d.nextFeePayment # Unset
                     /\ d.nextFeePayment <= t}

\* studentSchema.statics.getOverdueStudents at time t; $lt matches no
\* document that lacks the field
getOverdueStudents(S, t) ==
    {d \in S : /\ d.isActive
               /\ \/ d.feeStatus = "overdue"
                  \/ /\ d.feeStatus = "pending"
                     /\ d.nextFeePayment # Unset
                     /\ d.nextFeePayment < t}

\* d comes before e under .sort({key: dir}); documents with equal keys are
\* taken in the order of their identifiers
Before(d, e, key, asc) ==
    IF d[key] = e[key] THEN d.id < e.id
    ELSE IF asc THEN d[key] < e[key] ELSE d[key] > e[key]

RECURSIVE SortDocs(_, _, _)
SortDocs(D, key, asc) ==
    IF D = {} THEN <<>>
    ELSE LET first == CHOOSE d \in D : \A e \in D \ {d} : Before(d, e, key, asc)
         IN  <<first>> \o SortDocs(D \ {first}, key, asc)

\* .skip(skip).limit(limit) of a sorted result
SkipLimit(seq, skip, limit) ==
    SubSeq(seq, skip + 1, IF skip + limit < Len(seq) THEN skip + limit ELSE Len(seq))

\* Math.ceil(a / b) for a >= 0, b >= 1
Ceil(a, b) == (a + b - 1) \div b

Range(seq) == {seq[i] : i \in 1..Len(seq)}

\* the filter object GET / builds from its query parameters
ListFilter(S, q) ==
    {d \in S :
        /\ (Get(q, "isActive", "true") # "all"
              => d.isActive = (Get(q, "isActive", "true") = "true"))
        /\ (Has(q, "course") => d.course = q.course)
        /\ (Has(q, "feeStatus") => d.feeStatus = q.feeStatus)}

\* the documents GET / pages through: the search replaces the filter
ListQuery(S, q) ==
    IF Has(q, "search") THEN searchStudents(S, q.search) ELSE ListFilter(S, q)

\* GET /: the page, and the pagination computed from countDocuments(filter)
ListResponse(S, q) ==
    LET pageNum  == Get(q, "page", 1)
        limitNum == Get(q, "limit", 10)
        sorted   == SortDocs(ListQuery(S, q), Get(q, "sortBy", "createdAt"),
                             Get(q, "sortOrder", "desc") = "asc")
        total    == Cardinality(ListFilter(S, q))
    IN  [status   |-> 200,
         students |-> SkipLimit(sorted, (pageNum - 1) * limitNum, limitNum),
         pagination |->
            [currentPage     |-> pageNum,
             totalPages      |-> Ceil(total, limitNum),
             totalStudents   |-> total,
             studentsPerPage |-> limitNum,
             hasNextPage     |-> pageNum < Ceil(total, limitNum),
             hasPrevPage     |-> pageNum > 1]]

\* the answer of the routes that page through a helper's result D
PagedResponse(D, key, asc, q) ==
    LET pageNum  == Get(q, "page", 1)
        limitNum == Get(q, "limit", 10)
        total    == Cardinality(D)
    IN  [status   |-> 200,
         students |-> SkipLimit(SortDocs(D, key, asc),
                                (pageNum - 1) * limitNum, limitNum),
         pagination |->
            [currentPage     |-> pageNum,
             totalPages      |-> Ceil(total, limitNum),
             totalStudents   |-> total,
             studentsPerPage |-> limitNum]]

\* GET /search/:term
SearchResponse(S, term, q) ==
    PagedResponse(searchStudents(S, term), "createdAt", FALSE, q)

\* GET /course/:course
CourseResponse(S, course, q) ==
    PagedResponse(findByCourse(S, course), "createdAt", FALSE, q)

\* GET /fees/status/:status
FeeStatusResponse(S, status, q) ==
    IF status \notin FeeStatuses
    THEN [status |-> 400, students |-> <<>>, pagination |-> <<>>]
    ELSE PagedResponse(findByFeeStatus(S, status), "createdAt", FALSE, q)

\* GET /fees/overdue at time t
OverdueResponse(S, t, q) ==
    PagedResponse(getOverdueStudents(S, t), "nextFeePayment", TRUE, q)

\* GET /:id
GetByIdResponse(S, id) ==
    IF FindById(S, id) = {} THEN [status |-> 404, data |-> <<>>]
    ELSE [status |-> 200, data |-> OneOf(FindById(S, id))]

\* countDocuments({feeStatus: status}) over every record, active or not
countByFeeStatusAnyState(S, status) ==
    Cardinality({d \in S : d.feeStatus = status})

\* countDocuments({isActive: true})
countActive(S) == Cardinality({d \in S : d.isActive})

\* countDocuments({feeStatus: status, isActive: true})
countByFeeStatus(S, status) ==
    Cardinality({d \in S : d.feeStatus = status /\ d.isActive})

\* {$group: {_id: null, total: {$sum: "$feeAmount"}}}
RECURSIVE SumFeeAmount(_)
SumFeeAmount(D) ==
    IF D = {} THEN 0
    ELSE LET d == CHOOSE x \in D : TRUE
         IN  d.feeAmount + SumFeeAmount(D \ {d})

\* totalRevenue[0]?.total || 0 of the aggregate over paid active records
totalRevenue(S) ==
    SumFeeAmount({d \in S : d.feeStatus = "paid" /\ d.isActive})

\* {$match: {isActive: true}}, {$group: {_id: "$course", count: {$sum: 1}}}
CourseGroups(S) ==
    {[course |-> c,
      count |-> Cardinality({d \in S : d.isActive /\ d.course = c})] :
        c \in {d.course : d \in {e \in S : e.isActive}}}

\* {$sort: {count: -1}}: the orders the sort can give; groups of equal
\* count come in any order
courseDistribution(S) ==
    LET G == CourseGroups(S)
        n == Cardinality(G)
    IN  {seq \in [1..n -> G] :
            /\ \A i, j \in 1..n : i # j => seq[i] # seq[j]
            /\ \A i, j \in 1..n : i < j => seq[i].count >= seq[j].count}

\* Student.getDashboardStats(): the results it can return on collection S
getDashboardStats(S) ==
    {[totalStudents |-> countActive(S),
      paidFees |-> countByFeeStatus(S, "paid"),
      pendingFees |-> countByFeeStatus(S, "pending"),
      overdueFees |-> countByFeeStatus(S, "overdue"),
      totalRevenue |-> totalRevenue(S),
      courseDistribution |-> cd] : cd \in courseDistribution(S)}

\* GET /dashboard/stats
DashboardResponse(S) ==
    {[status |-> 200, data |-> st] : st \in getDashboardStats(S)}

(***************************** validators of the router ********************)
\* validateStudent: every mandatory field present and well-formed
validateStudent(b) ==
    /\ Has(b, "name") /\ Len(b.name) >= 2 /\ Len(b.name) <= 100
    /\ Has(b, "email") /\ EmailMatches(b.email)
    /\ Has(b, "phone") /\ PhoneMatches(b.phone)
    /\ Has(b, "course") /\ Len(b.course) > 0
    /\ Has(b, "feeAmount") /\ b.feeAmount >= 0 /\ b.feeAmount <= 50000
    /\ (Has(b, "feeStatus") => b.feeStatus \in FeeStatuses)

\* validateStudentUpdate: every field optional, checked when present
validateStudentUpdate(b) ==
    /\ (Has(b, "name") => Len(b.name) >= 2 /\ Len(b.name) <= 100)
    /\ (Has(b, "email") => EmailMatches(b.email))
    /\ (Has(b, "phone") => PhoneMatches(b.phone))
    /\ (Has(b, "course") => Len(b.course) > 0)
    /\ (Has(b, "feeAmount") => b.feeAmount >= 0 /\ b.feeAmount <= 50000)
    /\ (Has(b, "feeStatus") => b.feeStatus \in FeeStatuses)

\* the sanitizers of the validation chains rewrite req.body
Sanitize(b) ==
    [f \in DOMAIN b |-> IF f = "email" THEN NormalizeEmail(b[f]) ELSE b[f]]

(***************************** requests ************************************)
\* the bodies clients POST
CreateBodies ==
    LET base == [name |-> <<"A", "n">>, email |-> <<"a", "@", "x">>,
                 phone |-> <<"9", "1">>,
                 course |-> <<"Physics", "-", "Class", "12">>,
                 feeAmount |-> 5000]
        bo   == [name |-> <<"B", "o">>, email |-> <<"b", "@", "x">>,
                 phone |-> <<"+", "9", "2">>,
                 course |-> <<"Mathematics", "-", "Class", "9">>,
                 feeAmount |-> 0]
    IN  { base,
          base @@ [feeStatus |-> "paid", joinDate |-> DateOf(2023, 12, 30)],
          [base EXCEPT !.email = <<"A", "@", "X">>]
              @@ [feeStatus |-> "pending", joinDate |-> DateOf(2023, 12, 30)],
          bo @@ [joinDate |-> DateOf(2023, 12, 31)],
          bo @@ [feeStatus |-> "overdue", joinDate |-> DateOf(2023, 12, 31),
                 lastFeePayment |-> DateOf(2024, 1, 31)],
          bo @@ [feeStatus |-> "paid", lastFeePayment |-> DateOf(2024, 1, 15)],
          [bo EXCEPT !.course = <<"Astrology", "-", "Class", "5">>],
          [bo EXCEPT !.feeAmount = 60000] }

\* the bodies clients PUT
UpdateBodies ==
    { [email |-> <<"B", "@", "x">>],
      [email |-> <<"a", "@", "x">>],
      [feeStatus |-> "paid"],
      [feeStatus |-> "pending", isActive |-> TRUE],
      [lastFeePayment |-> DateOf(2024, 1, 31)],
      [course |-> <<"Astrology", "-", "Class", "5">>],
      [course |-> <<"Physics", "-", "Class", "12">>, feeAmount |-> 50000],
      [feeAmount |-> 60000] }

\* the paging parameters clients send; <<>> sends none
PageParams ==
    {<<>>} \cup {[page |-> pg, limit |-> l] : pg \in 1..MaxPage, l \in 1..MaxLimit}

\* the search terms clients send
SearchTerms == {<<"A", "N">>, <<"physics">>, <<"9">>, <<"@", ".">>}

\* the courses and fee statuses clients filter by
CourseParams ==
    {<<"Physics", "-", "Class", "12">>, <<"Mathematics", "-", "Class", "9">>}

StatusParams == {"paid", "pending", "overdue", "late"}

\* the choices of one optional query parameter: absent, or one of vals
Optional(name, vals) == {<<>>} \cup {[f \in {name} |-> v] : v \in vals}

\* the query strings clients send to GET /
ListParams ==
    {a @@ c @@ f @@ s @@ o @@ pg :
        a \in Optional("isActive", {"true", "false", "all"}),
        c \in Optional("course", CourseParams),
        f \in Optional("feeStatus", {"paid", "pending"}),
        s \in Optional("search", {<<"A", "N">>, <<"9">>}),
        o \in {<<>>, [sortBy |-> "feeAmount", sortOrder |-> "asc"]},
        pg \in PageParams}

\* the identifiers clients name in a path
Ids == 1..MaxIds

Idle ==
    [pc |-> "idle", op |-> "none", id |-> 0, body |-> <<>>, snap |-> <<>>,
     status |-> 0, data |-> <<>>]

\* a request that has been received and is waiting on its first store call
Received(op, id, b) ==
    [pc |-> "idle", op |-> op, id |-> id, body |-> b, snap |-> <<>>,
     status |-> 0, data |-> <<>>]

\* res.status(code).json({... data}) ends the request
Respond(r, code, data) ==
    [r EXCEPT !.pc = "done", !.status = code, !.data = data, !.snap = <<>>]

CanStart(p) == slot[p].pc \in {"idle", "done"} /\ nreq < MaxRequests

InFlightCreates == Cardinality({q \in Procs : slot[q].pc = "create_save"})

(***************************** bootstrap ***********************************)
sampleStudents ==
    << [name |-> <<"Rahul", " ", "Sharma">>,
        email |-> <<"rahul.sharma", "@", "email.com">>,
        phone |-> <<"+", "9", "1", "-", "9", "8", "7", "6", "5", "4", "3", "2", "1", "0">>,
        course |-> <<"Mathematics", "-", "Class", "12">>,
        feeAmount |-> 5000, feeStatus |-> "paid",
        joinDate |-> DateOf(2024, 1, 15)],
       [name |-> <<"Priya", " ", "Patel">>,
        email |-> <<"priya.patel", "@", "email.com">>,
        phone |-> <<"+", "9", "1", "-", "9", "8", "7", "6", "5", "4", "3", "2", "1", "2">>,
        course |-> <<"Physics", "-", "Class", "11">>,
        feeAmount |-> 4500, feeStatus |-> "pending",
        joinDate |-> DateOf(2024, 2, 1)],
       [name |-> <<"Amit", " ", "Kumar">>,
        email |-> <<"amit.kumar", "@", "email.com">>,
        phone |-> <<"+", "9", "1", "-", "9", "8", "7", "6", "5", "4", "3", "2", "1", "4">>,
        course |-> <<"Chemistry", "-", "Class", "12">>,
        feeAmount |-> 5500, feeStatus |-> "paid",
        joinDate |-> DateOf(2024, 1, 20)],
       [name |-> <<"Sneha", " ", "Gupta">>,
        email |-> <<"sneha.gupta", "@", "email.com">>,
        phone |-> <<"+", "9", "1", "-", "9", "8", "7", "6", "5", "4", "3", "2", "1", "6">>,
        course |-> <<"Mathematics", "-", "Class", "11">>,
        feeAmount |-> 4000, feeStatus |-> "overdue",
        joinDate |-> DateOf(2024, 3, 10)],
       [name |-> <<"Karan", " ", "Singh">>,
        email |-> <<"karan.singh", "@", "email.com">>,
        phone |-> <<"+", "9", "1", "-", "9", "8", "7", "6", "5", "4", "3", "2", "1", "8">>,
        course |-> <<"Physics", "-", "Class", "12">>,
        feeAmount |-> 5200, feeStatus |-> "paid",
        joinDate |-> DateOf(2024, 2, 15)] >>

\* Student.insertMany(bodies): the documents are built and validated; one
\* invalid document makes the (ordered) call fail and nothing is inserted.
\* insertMany runs no save middleware.
InsertMany(S, bodies, firstId, t) ==
    LET docs == {NewStudent(bodies[i], firstId + i - 1, t) : i \in 1..Len(bodies)}
    IN  IF \A d \in docs : SchemaValid(d) /\ ~DuplicateKey(S \cup docs, d)
        THEN S \cup docs
        ELSE S

\* initializeSampleData(): seeds an empty collection; an error is logged
Seed ==
    /\ ~seeded
    /\ seeded' = TRUE
    /\ store' = IF Cardinality(store) = 0
                THEN InsertMany(store, sampleStudents, nextId, now)
                ELSE store
    /\ nextId' = nextId + Cardinality(store') - Cardinality(store)
    /\ UNCHANGED <<now, slot, nreq>>

\* time passes
Tick ==
    /\ now < NowStart + MaxTicks
    /\ now' = now + 1
    /\ UNCHANGED <<store, nextId, slot, nreq, seeded>>

(***************************** POST / **************************************)
\* validateStudent, handleValidationErrors, findOne({email})
CreateBegin(p, b) ==
    /\ CanStart(p)
    /\ nextId + InFlightCreates <= MaxIds
    /\ nreq' = nreq + 1
    /\ LET r  == Received("create", 0, Sanitize(b))
       IN  slot' = [slot EXCEPT ![p] =
              IF ~validateStudent(b) THEN Respond(r, 400, <<>>)
              ELSE IF FindOneByEmail(store, r.body.email) # {}
                   THEN Respond(r, 409, <<>>)
                   ELSE [r EXCEPT !.pc = "create_save"]]
    /\ UNCHANGED <<store, nextId, now, seeded>>

\* what student.save() of a new document does to the collection:
\* <<status, collection, document>>
SaveNew(S, d, t) ==
    IF ~SchemaValid(d) THEN <<500, S, <<>>>>
    ELSE LET d2 == PreSave(d, TRUE, FALSE, t)
         IN  IF DuplicateKey(S, d2) THEN <<409, S, <<>>>>
             ELSE <<201, S \cup {d2}, <<d2>>>>

\* new Student(studentData); await student.save()
CreateSave(p) ==
    /\ slot[p].pc = "create_save"
    /\ LET res == SaveNew(store, NewStudent(slot[p].body, nextId, now), now)
       IN  /\ store' = res[2]
           /\ nextId' = IF res[1] = 201 THEN nextId + 1 ELSE nextId
           /\ slot' = [slot EXCEPT ![p] = Respond(slot[p], res[1], res[3])]
    /\ UNCHANGED <<now, nreq, seeded>>

(***************************** PUT /:id ************************************)
\* validateStudentUpdate, handleValidationErrors, findById(id) and the
\* test that decides whether the email is looked up
UpdateBegin(p, id, b) ==
    /\ CanStart(p)
    /\ nreq' = nreq + 1
    /\ LET r    == Received("update", id, Sanitize(b))
           snap == OneOf(FindById(store, id))
       IN  slot' = [slot EXCEPT ![p] =
              IF ~validateStudentUpdate(b) THEN Respond(r, 400, <<>>)
              ELSE IF snap = <<>> THEN Respond(r, 404, <<>>)
              ELSE IF Has(r.body, "email") /\ r.body.email # snap[1].email
                   THEN [r EXCEPT !.pc = "upd_check", !.snap = snap]
                   ELSE [r EXCEPT !.pc = "upd_write", !.snap = snap]]
    /\ UNCHANGED <<store, nextId, now, seeded>>

\* findOne({email: updateData.email})
UpdateCheck(p) ==
    /\ slot[p].pc = "upd_check"
    /\ slot' = [slot EXCEPT ![p] =
          IF FindOneByEmail(store, slot[p].body.email) # {}
          THEN Respond(slot[p], 409, <<>>)
          ELSE [slot[p] EXCEPT !.pc = "upd_write"]]
    /\ UNCHANGED <<store, nextId, now, nreq, seeded>>

\* the document with the fields of the update set
ApplyUpdate(d, b) ==
    [f \in DOMAIN d |-> IF f \in DOMAIN b THEN CastField(f, b[f]) ELSE d[f]]

\* Student.findByIdAndUpdate(id, b, {new: true, runValidators: true}):
\* <<status, collection, document>>.  No save middleware runs; a missing
\* document gives null, which the handler answers as a success.
FindByIdAndUpdate(S, id, b) ==
    IF ~UpdateValid(b) THEN <<500, S, <<>>>>
    ELSE IF FindById(S, id) = {} THEN <<200, S, <<>>>>
    ELSE LET e == CHOOSE d \in S : d.id = id
             n == ApplyUpdate(e, b)
         IN  IF DuplicateKey(S, n) THEN <<409, S, <<>>>>
             ELSE <<200, (S \ {e}) \cup {n}, <<n>>>>

UpdateWrite(p) ==
    /\ slot[p].pc = "upd_write"
    /\ LET res == FindByIdAndUpdate(store, slot[p].id, slot[p].body)
       IN  /\ store' = res[2]
           /\ slot' = [slot EXCEPT ![p] = Respond(slot[p], res[1], res[3])]
    /\ UNCHANGED <<nextId, now, nreq, seeded>>

(***************************** by-id handlers ******************************)
\* findById(id) of DELETE /:id, PUT /:id/deactivate and PUT /:id/fee-paid
ByIdBegin(p, op, id, pcNext) ==
    /\ CanStart(p)
    /\ nreq' = nreq + 1
    /\ LET r    == Received(op, id, <<>>)
           snap == OneOf(FindById(store, id))
       IN  slot' = [slot EXCEPT ![p] =
              IF snap = <<>> THEN Respond(r, 404, <<>>)
              ELSE [r EXCEPT !.pc = pcNext, !.snap = snap]]
    /\ UNCHANGED <<store, nextId, now, seeded>>

DeleteBegin(p, id) == ByIdBegin(p, "delete", id, "del_write")

\* a delete that only marks the document inactive
DeleteAsDeactivate(p) ==
    /\ slot[p].pc = "del_write"
    /\ store' = {IF d.id = slot[p].id THEN [d EXCEPT !.isActive = FALSE] ELSE d :
                    d \in store}
    /\ slot' = [slot EXCEPT ![p] = Respond(slot[p], 200, slot[p].snap)]
    /\ UNCHANGED <<nextId, now, nreq, seeded>>

\* findByIdAndDelete(id); the answer carries the document read before
DeleteWrite(p) ==
    /\ slot[p].pc = "del_write"
    /\ store' = store \ FindById(store, slot[p].id)
    /\ slot' = [slot EXCEPT ![p] = Respond(slot[p], 200, slot[p].snap)]
    /\ UNCHANGED <<nextId, now, nreq, seeded>>

\* doc.save() of a document read earlier (snap) and changed in memory (d):
\* validation, pre("save"), then updateOne({_id}, {$set: modified paths}).
\* <<status, collection, document>>.  With nothing modified no write is
\* sent; a write that matches no document throws DocumentNotFoundError.
SaveExisting(S, snap, d, t) ==
    IF ~SchemaValid(d) THEN <<500, S, <<>>>>
    ELSE
      LET d2  == PreSave(d, FALSE, d.lastFeePayment # snap.lastFeePayment, t)
          mod == {f \in DOMAIN d2 : d2[f] # snap[f]}
      IN  IF mod = {} THEN <<200, S, <<d2>>>>
          ELSE IF FindById(S, d.id) = {} THEN <<500, S, <<>>>>
          ELSE LET e == CHOOSE x \in S : x.id = d.id
                   n == [f \in DOMAIN e |-> IF f \in mod THEN d2[f] ELSE e[f]]
               IN  <<200, (S \ {e}) \cup {n}, <<d2>>>>

\* studentSchema.methods.deactivate
deactivate(S, snap, t) ==
    SaveExisting(S, snap, [snap EXCEPT !.isActive = FALSE], t)

\* studentSchema.methods.markFeePaid
markFeePaid(S, snap, t) ==
    SaveExisting(S, snap,
                 [snap EXCEPT !.feeStatus = "paid", !.lastFeePayment = t], t)

DeactivateBegin(p, id) == ByIdBegin(p, "deactivate", id, "deact_save")

DeactivateSave(p) ==
    /\ slot[p].pc = "deact_save"
    /\ LET res == deactivate(store, slot[p].snap[1], now)
       IN  /\ store' = res[2]
           /\ slot' = [slot EXCEPT ![p] = Respond(slot[p], res[1], res[3])]
    /\ UNCHANGED <<nextId, now, nreq, seeded>>

FeePaidBegin(p, id) == ByIdBegin(p, "feepaid", id, "fee_save")

FeePaidSave(p) ==
    /\ slot[p].pc = "fee_save"
    /\ LET res == markFeePaid(store, slot[p].snap[1], now)
       IN  /\ store' = res[2]
           /\ slot' = [slot EXCEPT ![p] = Respond(slot[p], res[1], res[3])]
    /\ UNCHANGED <<nextId, now, nreq, seeded>>

Init ==
    /\ store = {}
    /\ nextId = 1
    /\ now = NowStart
    /\ slot = [p \in Procs |-> Idle]
    /\ nreq = 0
    /\ seeded = FALSE

Next ==
    \/ Seed
    \/ Tick
    \/ \E p \in Procs : \E b \in CreateBodies : CreateBegin(p, b)
    \/ \E p \in Procs : CreateSave(p)
    \/ \E p \in Procs : \E id \in Ids : \E b \in UpdateBodies : UpdateBegin(p, id, b)
    \/ \E p \in Procs : UpdateCheck(p)
    \/ \E p \in Procs : UpdateWrite(p)
    \/ \E p \in Procs : \E id \in Ids : DeleteBegin(p, id)
    \/ \E p \in Procs : DeleteWrite(p)
    \/ \E p \in Procs : \E id \in Ids : DeactivateBegin(p, id)
    \/ \E p \in Procs : DeactivateSave(p)
    \/ \E p \in Procs : \E id \in Ids : FeePaidBegin(p, id)
    \/ \E p \in Procs : FeePaidSave(p)

Spec == Init /\ [][Next]_vars


\* one client, whose requests follow one another
NextSeq ==
    \/ Seed
    \/ Tick
    \/ \E b \in CreateBodies : CreateBegin("c1", b)
    \/ CreateSave("c1")
    \/ \E id \in Ids : \E b \in UpdateBodies : UpdateBegin("c1", id, b)
    \/ UpdateCheck("c1")
    \/ UpdateWrite("c1")
    \/ \E id \in Ids : DeleteBegin("c1", id)
    \/ DeleteWrite("c1")
    \/ \E id \in Ids : DeactivateBegin("c1", id)
    \/ DeactivateSave("c1")
    \/ \E id \in Ids : FeePaidBegin("c1", id)
    \/ FeePaidSave("c1")

SpecSeq == Init /\ [][NextSeq]_vars

\* each client sends one Create, and the two run concurrently
CreateOnce(p, b) == slot[p].pc = "idle" /\ CreateBegin(p, b)

NextRace ==
    \/ Seed
    \/ Tick
    \/ \E p \in Procs : \E b \in CreateBodies : CreateOnce(p, b)
    \/ \E p \in Procs : CreateSave(p)

SpecRace == Init /\ [][NextRace]_vars

(***************************** properties **********************************)
StoredIds(S) == {d.id : d \in S}

\* the date the schema's rule derives nextFeePayment from
DueBase(d) == IF d.lastFeePayment # Unset THEN d.lastFeePayment ELSE d.joinDate

\* C1: every record a Create stores has nextFeePayment one calendar month
\* after its stored lastFeePayment when that is set, else after its joinDate.
C1_CreatedNextFromStoredBase ==
    [][\A d \in store' :
          d.id \notin StoredIds(store)
              => d.nextFeePayment = SetMonthPlusOne(DueBase(d))]_vars

\* C2: in every reachable store state every record with feeStatus "paid"
\* has lastFeePayment set.
C2_PaidHasLastFeePayment ==
    \A d \in store : d.feeStatus = "paid" => d.lastFeePayment # Unset

\* the step is the write of a successful Update by client p
UpdateApplied(p) ==
    /\ slot[p].pc = "upd_write"
    /\ slot'[p].pc = "done"
    /\ slot'[p].status = 200
    /\ slot'[p].data # <<>>

\* C10: an Update goes through the derivation hook: when it changes
\* lastFeePayment the stored nextFeePayment is the new lastFeePayment plus one
\* calendar month, and when it leaves the record "paid" lastFeePayment is set.
C10_UpdateRunsDerivationHook ==
    [][\A p \in Procs :
          UpdateApplied(p) =>
             LET n == CHOOSE d \in store' : d.id = slot[p].id
                 e == CHOOSE d \in store : d.id = slot[p].id
             IN  /\ (n.lastFeePayment # e.lastFeePayment
                        => n.nextFeePayment = SetMonthPlusOne(n.lastFeePayment))
                 /\ (Has(slot[p].body, "feeStatus") /\ n.feeStatus = "paid"
                        => n.lastFeePayment # Unset)]_vars

\* a Create that passes the router's validators and the schema's
ValidCreate(b) == validateStudent(b) /\ SchemaValid(NewStudent(b, 0, 0))

\* clients p and q each sent a valid Create, both with the same normalized
\* email, and both have been answered
SameEmailCreates(p, q) ==
    /\ p # q
    /\ slot[p].op = "create" /\ slot[p].pc = "done"
    /\ slot[q].op = "create" /\ slot[q].pc = "done"
    /\ ValidCreate(slot[p].body) /\ ValidCreate(slot[q].body)
    /\ NormalizeEmail(slot[p].body.email) = NormalizeEmail(slot[q].body.email)

\* C3: two concurrent Creates with the same normalized email end, under
\* every interleaving of their findOne and save, with one 201 and one 409
\* and with exactly one record of that email stored.
C3_OneSuccessOneConflict ==
    \A p, q \in Procs :
        SameEmailCreates(p, q) =>
            /\ {slot[p].status, slot[q].status} = {201, 409}
            /\ Cardinality({d \in store :
                   d.email = NormalizeEmail(slot[p].body.email)}) = 1

C3_Witness ==
    \E p, q \in Procs :
        /\ SameEmailCreates(p, q)
        /\ slot[p].status = 201
        /\ slot[q].status = 409
        /\ slot[p].data[1].createdAt < now

\* C4: in every reachable store state no two stored records, active or
\* not, have the same email.
C4_EmailUnique ==
    \A d, e \in store : d.id # e.id => d.email # e.email

\* an Update asked for the email of a record a Create had stored, and was
\* refused
C4_Witness ==
    /\ Cardinality(store) = 2
    /\ \E p, q \in Procs :
          /\ slot[p].op = "create" /\ slot[p].status = 201
          /\ slot[q].op = "update" /\ slot[q].status = 409
          /\ slot[p].data[1].email = slot[q].body.email
          /\ slot[p].data[1] \in store

DeactivateApplied(p) ==
    /\ slot[p].pc = "deact_save"
    /\ slot'[p].pc = "done"
    /\ slot'[p].status = 200

\* the records some listing that takes the default isActive returns from
\* collection S at time t
Listed(S, t) ==
    UNION ( {Range(ListResponse(S, q).students) :
                q \in {x \in ListParams : Get(x, "isActive", "true") = "true"}}
            \cup {Range(SearchResponse(S, term, q).students) :
                    term \in SearchTerms, q \in PageParams}
            \cup {Range(CourseResponse(S, c, q).students) :
                    c \in CourseParams, q \in PageParams}
            \cup {Range(FeeStatusResponse(S, st, q).students) :
                    st \in StatusParams, q \in PageParams}
            \cup {Range(OverdueResponse(S, t, q).students) : q \in PageParams} )

\* no inactive record of S is listed, and Get by ID returns each of them
InactiveHiddenButRetrievable(S, t) ==
    \A d \in S :
        ~d.isActive =>
            /\ d \notin Listed(S, t)
            /\ GetByIdResponse(S, d.id) = [status |-> 200, data |-> <<d>>]

\* C5: a successful Deactivate leaves its record inactive, and a record
\* that is stored and inactive appears in no result of List (default
\* isActive), Search by term, By course, By fee status or Overdue, while Get
\* by ID returns it.
C5_DeactivatedHiddenButRetrievable ==
    [][/\ \A p \in Procs :
             DeactivateApplied(p) =>
                /\ \E d \in store' : d.id = slot[p].id
                /\ \A d \in store' : d.id = slot[p].id => ~d.isActive
       /\ InactiveHiddenButRetrievable(store', now')]_vars

C5_Witness ==
    \E p \in Procs :
        /\ slot[p].op = "deactivate"
        /\ slot[p].status = 200
        /\ \E d \in store :
              /\ d.id = slot[p].id
              /\ ~d.isActive
              /\ d.feeStatus = "overdue"
              /\ d \notin Listed(store, now)
        /\ \E e \in store : e \in Listed(store, now)

\* what the claim of C6 says of one answer: N matching records M, paging q
PagedAsClaimed(resp, M, key, asc, q) ==
    LET N  == Cardinality(M)
        L  == Get(q, "limit", 10)
        pg == Get(q, "page", 1)
    IN  /\ resp.status = 200
        /\ resp.pagination.totalPages = Ceil(N, L)
        /\ resp.pagination.totalStudents = N
        /\ resp.students = SkipLimit(SortDocs(M, key, asc), (pg - 1) * L, L)
        /\ (pg > Ceil(N, L) => resp.students = <<>>)

\* the active records that match the criteria of a List request
ListMatching(S, q) ==
    {d \in S :
        /\ d.isActive
        /\ IF Has(q, "search")
           THEN \/ RegexMatch(d.name, q.search)
                \/ RegexMatch(d.email, q.search)
                \/ RegexMatch(d.course, q.search)
                \/ RegexMatch(d.phone, q.search)
           ELSE /\ (Has(q, "course") => d.course = q.course)
                /\ (Has(q, "feeStatus") => d.feeStatus = q.feeStatus)}

\* C6 for the listings other than List
C6_HelperListingsPaged ==
    /\ \A term \in SearchTerms, q \in PageParams :
          PagedAsClaimed(SearchResponse(store, term, q),
                         {d \in store : d.isActive /\
                             (\/ RegexMatch(d.name, term)
                              \/ RegexMatch(d.email, term)
                              \/ RegexMatch(d.course, term)
                              \/ RegexMatch(d.phone, term))},
                         "createdAt", FALSE, q)
    /\ \A c \in CourseParams, q \in PageParams :
          PagedAsClaimed(CourseResponse(store, c, q),
                         {d \in store : d.isActive /\ d.course = c},
                         "createdAt", FALSE, q)
    /\ \A st \in FeeStatuses, q \in PageParams :
          PagedAsClaimed(FeeStatusResponse(store, st, q),
                         {d \in store : d.isActive /\ d.feeStatus = st},
                         "createdAt", FALSE, q)
    /\ \A q \in PageParams :
          PagedAsClaimed(OverdueResponse(store, now, q),
                         {d \in store : d.isActive /\
                             (\/ d.feeStatus = "overdue"
                              \/ (d.feeStatus = "pending" /\ d.nextFeePayment # Unset
                                     /\ d.nextFeePayment < now))},
                         "nextFeePayment", TRUE, q)

\* C6: every paginated listing (List, Search by term, By course, By fee
\* status, Overdue) with N active matching records and page size L answers
\* totalPages = ceil(N/L) and totalStudents = N, returns for page p the
\* records at positions (p-1)*L+1 .. p*L of the sorted result, and answers a
\* page past the last with success and no records.
C6_ListingsPaged ==
    /\ C6_HelperListingsPaged
    /\ \A q \in ListParams :
          Get(q, "isActive", "true") = "true" =>
              PagedAsClaimed(ListResponse(store, q), ListMatching(store, q),
                             Get(q, "sortBy", "createdAt"),
                             Get(q, "sortOrder", "desc") = "asc", q)

\* C7: the pagination of List describes the set of records its page is
\* taken from, for every combination of search, course, feeStatus and
\* isActive: total count is the size of that set, total pages and has-next
\* follow from it.
C7_ListMetadataMatchesQuery ==
    \A q \in ListParams :
        LET resp == ListResponse(store, q)
            N    == Cardinality(ListQuery(store, q))
            L    == Get(q, "limit", 10)
        IN  /\ resp.pagination.totalStudents = N
            /\ resp.pagination.totalPages = Ceil(N, L)
            /\ resp.pagination.hasNextPage = (Get(q, "page", 1) < Ceil(N, L))

\* the overdue set of the claim, at time t
OverdueAsClaimed(S, t) ==
    {d \in S :
        /\ d.isActive
        /\ \/ d.feeStatus = "overdue"
           \/ (d.feeStatus = "pending" /\ d.nextFeePayment # Unset
                  /\ d.nextFeePayment < t)}

\* C8: the Overdue listing holds exactly the active records with feeStatus
\* "overdue" and the active "pending" records whose nextFeePayment is
\* strictly before the current time: every page is drawn from that set, the
\* pages together make it up, and the total counts it.
C8_OverdueExactly ==
    /\ \A q \in PageParams :
          LET resp == OverdueResponse(store, now, q)
          IN  /\ Range(resp.students) \subseteq OverdueAsClaimed(store, now)
              /\ resp.pagination.totalStudents
                    = Cardinality(OverdueAsClaimed(store, now))
              /\ \A d \in Range(resp.students) :
                    /\ d.feeStatus # "paid"
                    /\ d.isActive
                    /\ (d.feeStatus = "pending" => d.nextFeePayment < now)
    /\ Range(OverdueResponse(store, now, <<>>).students)
          = OverdueAsClaimed(store, now)

C8_Witness ==
    \E d, e \in store :
        /\ d.feeStatus = "pending" /\ d.nextFeePayment < now
        /\ d \in Range(OverdueResponse(store, now, <<>>).students)
        /\ e.feeStatus = "pending" /\ e.isActive /\ e.nextFeePayment = now
        /\ e \notin Range(OverdueResponse(store, now, <<>>).students)

\* the step is client p receiving a request of kind op
Begins(p, op) ==
    /\ nreq' = nreq + 1
    /\ slot'[p] # slot[p]
    /\ slot[p].pc \in {"idle", "done"}
    /\ slot'[p].op = op

\* the step is the save of a Mark-fee-paid by client p
FeePaidAnswered(p) == slot[p].pc = "fee_save" /\ slot'[p].pc = "done"

\* d is a record as Mark fee paid at time t is said to leave it
PaidAt(d, t) ==
    /\ d.feeStatus = "paid"
    /\ d.lastFeePayment = t
    /\ d.nextFeePayment = SetMonthPlusOne(t)

\* C11: Mark fee paid on an existing record, whatever its feeStatus was,
\* answers success and leaves the stored record and the response with
\* feeStatus "paid", lastFeePayment the time of the call and nextFeePayment
\* one calendar month later; on an identifier with no record it answers 404
\* and changes no record.
C11_FeePaidStampsAndDerives ==
    [][\A p \in Procs :
          /\ (FeePaidAnswered(p) /\ FindById(store, slot[p].id) # {})
                => /\ slot'[p].status = 200
                   /\ slot'[p].data # <<>>
                   /\ PaidAt(slot'[p].data[1], now)
                   /\ \A d \in FindById(store', slot[p].id) : PaidAt(d, now)
                   /\ FindById(store', slot[p].id) # {}
          /\ (Begins(p, "feepaid") /\ FindById(store, slot'[p].id) = {})
                => /\ slot'[p].status = 404
                   /\ store' = store]_vars

\* the step is client p receiving the answer to its request of kind op
Answered(p, op) ==
    /\ slot'[p] # slot[p]
    /\ slot'[p].op = op
    /\ slot'[p].pc = "done"

\* a record of S other than id holds the email of body b
EmailTaken(S, b, id) ==
    /\ Has(b, "email")
    /\ \E d \in S : d.id # id /\ d.email = LowerText(b.email)

\* the request of client p is an Update of an existing record whose body
\* passes the request and the schema validation
ValidUpdateOfExisting(p) ==
    /\ validateStudentUpdate(slot'[p].body)
    /\ UpdateValid(slot'[p].body)
    /\ FindById(store, slot'[p].id) # {}

\* the Update of client p names the email that the record had when the
\* handler read it and still has
OwnEmail(p) ==
    /\ slot[p].pc = "upd_write"
    /\ Has(slot[p].body, "email")
    /\ slot[p].snap[1].email = slot[p].body.email
    /\ \E d \in FindById(store, slot[p].id) : d.email = slot[p].body.email

\* C12: an otherwise valid Create whose email a stored record (active or
\* not) holds, and an otherwise valid Update that changes the email to one
\* that a different record holds, are answered 409 and leave every record
\* unchanged; an Update that names the record's own email is not a conflict.
C12_DuplicateEmailRejected ==
    [][\A p \in Procs :
          /\ (/\ Answered(p, "create")
              /\ ValidCreate(slot'[p].body)
              /\ EmailTaken(store, slot'[p].body, 0))
                => slot'[p].status = 409 /\ store' = store
          /\ (/\ Answered(p, "update")
              /\ ValidUpdateOfExisting(p)
              /\ EmailTaken(store, slot'[p].body, slot'[p].id))
                => slot'[p].status = 409 /\ store' = store
          /\ (Answered(p, "update") /\ OwnEmail(p) /\ ValidUpdateOfExisting(p))
                => /\ slot'[p].status = 200
                   /\ \E d \in FindById(store', slot[p].id) :
                         d.email = slot[p].body.email]_vars

\* an Update was answered 409 while its record exists under another email
\* and a different record holds the email it asked for
C12_Witness ==
    \E p \in Procs :
       /\ slot[p].op = "update" /\ slot[p].pc = "done" /\ slot[p].status = 409
       /\ \E d, e \in store :
             /\ d.id = slot[p].id /\ e.id # d.id
             /\ d.email # slot[p].body.email
             /\ e.email = slot[p].body.email

\* body b names a course outside the catalog or a fee outside the range
OutOfCatalogOrRange(b) ==
    \/ Has(b, "course") /\ b.course \notin Catalog
    \/ Has(b, "feeAmount") /\ (b.feeAmount < 0 \/ b.feeAmount > 50000)

\* C13: a Create whose course is not in the catalog or whose feeAmount is
\* outside [0, 50000] is answered 400 by the request validation: it has no
\* step that waits on the store, and no record is stored.
C13_OutOfCatalogRejected400 ==
    [][\A p \in Procs :
          (/\ slot'[p] # slot[p]
           /\ slot'[p].op = "create"
           /\ OutOfCatalogOrRange(slot'[p].body))
             => /\ slot'[p].pc = "done"
                /\ slot'[p].status = 400
                /\ store' = store]_vars

\* the sum of the counts of a course distribution
RECURSIVE SumCounts(_)
SumCounts(seq) ==
    IF seq = <<>> THEN 0 ELSE Head(seq).count + SumCounts(Tail(seq))

\* st is the statistics the claim describes for collection S
StatsAsClaimed(st, S) ==
    LET active == {d \in S : d.isActive}
        with(f) == {d \in active : d.feeStatus = f}
        cd == st.courseDistribution
    IN  /\ st.totalStudents = Cardinality(active)
        /\ st.paidFees = Cardinality(with("paid"))
        /\ st.pendingFees = Cardinality(with("pending"))
        /\ st.overdueFees = Cardinality(with("overdue"))
        /\ st.paidFees + st.pendingFees + st.overdueFees = st.totalStudents
        /\ st.totalRevenue = SumFeeAmount(with("paid"))
        /\ {cd[i].course : i \in 1..Len(cd)} = {d.course : d \in active}
        /\ \A i, j \in 1..Len(cd) : i # j => cd[i].course # cd[j].course
        /\ \A i \in 1..Len(cd) :
              cd[i].count = Cardinality({d \in active : d.course = cd[i].course})
        /\ \A i \in 1..(Len(cd) - 1) : cd[i].count >= cd[i + 1].count
        /\ SumCounts(cd) = st.totalStudents

Deleted == {i \in 1..(nextId - 1) : FindById(store, i) = {}}

\* the step is the removal of a Delete by client p
DeleteAnswered(p) == slot[p].pc = "del_write" /\ slot'[p].pc = "done"

\* C15: a Delete of an existing record removes exactly that record, leaves
\* the others unchanged and answers with the removed record; from then on
\* Get by ID and every well-formed Update, Deactivate, Mark fee paid and
\* Delete on that identifier answer 404 and change nothing; a Delete on an
\* identifier with no record answers 404 and changes nothing.
C15_DeleteRemovesForGood ==
    [][/\ \A p \in Procs :
            /\ DeleteAnswered(p)
                 => \A d \in FindById(store, slot[p].id) :
                       /\ store' = store \ {d}
                       /\ slot'[p].status = 200
                       /\ slot'[p].data = <<d>>
            /\ \A op \in {"update", "deactivate", "feepaid", "delete"} :
                 (/\ Begins(p, op)
                  /\ FindById(store, slot'[p].id) = {}
                  /\ validateStudentUpdate(slot'[p].body))
                    => /\ slot'[p].pc = "done"
                       /\ slot'[p].status = 404
                       /\ store' = store
       /\ \A i \in Deleted :
            /\ GetByIdResponse(store, i).status = 404
            /\ FindById(store', i) = {}]_vars

\* a Delete was answered with the record it removed, which is gone, while
\* another record is still stored
C15_Witness ==
    \E p \in Procs :
       /\ slot[p].op = "delete" /\ slot[p].pc = "done" /\ slot[p].status = 200
       /\ slot[p].data # <<>> /\ slot[p].data[1].id = slot[p].id
       /\ slot[p].id \in Deleted
       /\ store # {}

\* the records a List request with a search term is said to return: the
\* ones that match the term and that the isActive parameter lets through
SearchVisible(S, q) ==
    {d \in S :
        /\ (Get(q, "isActive", "true") # "all"
              => d.isActive = (Get(q, "isActive", "true") = "true"))
        /\ \/ RegexMatch(d.name, q.search)
           \/ RegexMatch(d.email, q.search)
           \/ RegexMatch(d.course, q.search)
           \/ RegexMatch(d.phone, q.search)}

\* C16: a List with a search term returns the records that match the term
\* in name, email, course or phone, letter case ignored; the course and
\* feeStatus parameters are ignored, and isActive still decides which
\* records are visible, so that isActive "all" returns the matching records
\* that are not active too.  Stated for requests whose first page holds
\* every record.
C16_SearchHonoursIsActive ==
    \A q \in ListParams :
       (Has(q, "search") /\ ~Has(q, "page"))
          => Range(ListResponse(store, q).students) = SearchVisible(store, q)

\* the step is the write of a by-ID mutating request of client p, answered
\* as a success
WriteSucceeded(p) ==
    /\ slot[p].pc \in {"upd_write", "del_write", "deact_save", "fee_save"}
    /\ slot'[p].pc = "done"
    /\ slot'[p].status = 200

\* C17: under every interleaving of concurrent requests, an Update, Delete,
\* Deactivate or Mark fee paid is answered as a success only if the record
\* was stored when its write was applied, and the success carries the
\* record: no Update answers success without data after a concurrent Delete,
\* and of two concurrent Deletes of one record at most one answers success.
C17_SuccessOnlyIfRecordExists ==
    [][\A p \in Procs :
          WriteSucceeded(p)
             => /\ FindById(store, slot[p].id) # {}
                /\ slot'[p].data # <<>>]_vars

====
